---- MODULE Spec2Model ----
(***************************************************************************)
(* Blinko-TGRobot: the note-service and AI request clients                 *)
(* (src/services/blinko_service.py, blinko_api.py, ai_service.py) and the  *)
(* note-composition session driven by NoteHandler                          *)
(* (src/handlers/note_handler.py, src/models/session.py).                  *)
(*                                                                         *)
(* Python values are represented as follows.  A string the code inspects   *)
(* character by character (a URL that is rstrip'ed, a Retry-After header   *)
(* that is parsed by int()) is a sequence of one-character strings.  None  *)
(* is the atom Py_None.  A dict returned by a client is a record with a    *)
(* tag field.  An exception raised by a library call is named by its class.*)
(***************************************************************************)
EXTENDS Integers, Sequences, FiniteSets, TLC

\* ------------------------------------------------------------------------
\* Bounds of the model (not program constants)
\* ------------------------------------------------------------------------
MaxHdrLen == 2
MaxUrlLen == 2
MaxItems == 2
MaxAppends == 1
MaxPending == 2
MaxTextLen == 6

\* ------------------------------------------------------------------------
\* Program constants
\* ------------------------------------------------------------------------
max_retries == 3
retry_delay == 1

Py_None == "<None>"

VARIABLES
    client,          \* the service object under test (BlinkoService, BlinkoAPI, AIService)
    call,            \* the operation in progress on it and its position
    retries,         \* local `retries` of _make_request
    last_exception,  \* local `last_exception` of _make_request
    log,             \* network attempts and sleeps of the current operation, in order
    result,          \* what _make_request returned
    op_result,       \* what the typed operation returned to its caller
    raised,          \* exception class that left the constructor or operation, or "none"
    GLOBAL_SESSION,  \* the process-wide UserSession of note_handler.py
    ev,              \* the last event handled and the session state it found
    out,             \* renderings sent to the chat while handling it, in order
    calls,           \* note-service operations invoked while handling it, in order
    propagated,      \* exception class that left the handler, or "none"
    received,        \* number of messages handled since the session was last cleared
    selected_before, \* selected_tags as the last event handled found them
    pending,         \* updates fetched from Telegram and not yet handed to a handler
    active,          \* updates whose handler is suspended in an awaited call
    suggestion_text, \* the text generate_tags handed to the tags branch
    tag_info         \* the suggestions parsed from it, "unset" before the parsing

sessionVars == <<GLOBAL_SESSION, ev, out, calls, propagated, received, selected_before>>

loopVars == <<pending, active>>

parseVars == <<suggestion_text, tag_info>>

clientVars == <<client, call, retries, last_exception, log, result, op_result, raised>>

\* ------------------------------------------------------------------------
\* Strings handled character by character
\* ------------------------------------------------------------------------
SeqsUpTo(S, n) == UNION {[1..k -> S] : k \in 0..n}

HdrChars == {"1", "2", "x"}
UrlChars == {"h", "/"}

\* str.rstrip("/")
RECURSIVE rstrip(_)
rstrip(s) ==
    IF s # <<>> /\ s[Len(s)] = "/" THEN rstrip(SubSeq(s, 1, Len(s) - 1)) ELSE s

IsDigit(c) == c \in {"0", "1", "2", "3", "4", "5", "6", "7", "8", "9"}

DigitVal(c) ==
    CASE c = "0" -> 0 [] c = "1" -> 1 [] c = "2" -> 2 [] c = "3" -> 3 [] c = "4" -> 4
      [] c = "5" -> 5 [] c = "6" -> 6 [] c = "7" -> 7 [] c = "8" -> 8 [] c = "9" -> 9

RECURSIVE DecimalValue(_)
DecimalValue(s) ==
    IF s = <<>> THEN 0
    ELSE 10 * DecimalValue(SubSeq(s, 1, Len(s) - 1)) + DigitVal(s[Len(s)])

\* int(text) for a str over HdrChars: a value, or ValueError
IntParses(s) == s # <<>> /\ \A i \in 1..Len(s) : IsDigit(s[i])

\* ------------------------------------------------------------------------
\* Results handed back by the clients
\* ------------------------------------------------------------------------
Res(tag, err, status, last, body) ==
    [tag |-> tag, err |-> err, status |-> status, last |-> last, body |-> body]

NoResult == Res("unset", "-", 0, "-", "-")
NoneResult == Res("None", "-", 0, "-", "-")
Decoded(body) == Res("decoded", "-", 200, "-", body)
ErrorResult(err, status, last, body) == Res("error", err, status, last, body)

\* ------------------------------------------------------------------------
\* What one network attempt can come back with
\* ------------------------------------------------------------------------
NoHeader == [present |-> FALSE, text |-> <<>>]
Headers == {NoHeader} \cup {[present |-> TRUE, text |-> t] : t \in SeqsUpTo(HdrChars, MaxHdrLen)}

\* shapes of a JSON body once decoded
Shapes == {"dict_expected", "dict_error", "dict_other", "dict_empty", "list"}
\* response.json(): decodes, or raises ContentTypeError (a ClientError), or
\* raises json.JSONDecodeError (a ValueError)
JsonKinds == {"json", "ContentTypeError", "JSONDecodeError"}

\* body: the decoded shape of a 200 response, the text of any other response
Outcome(kind, status, header, json, body) ==
    [kind |-> kind, status |-> status, header |-> header, json |-> json, body |-> body]

TransportOutcomes ==
    {Outcome(k, 0, NoHeader, "-", "-") : k \in {"TimeoutError", "ClientError", "Exception"}}
RateLimited == {Outcome("response", 429, h, "-", "-") : h \in Headers}
Texts == {"bad request", "server error"}
BadStatus == {Outcome("response", s, NoHeader, "-", t) : s \in {400, 500}, t \in Texts}
Ok200 ==
    {Outcome("response", 200, NoHeader, "json", sh) : sh \in Shapes}
    \cup {Outcome("response", 200, NoHeader, j, "-") : j \in {"ContentTypeError", "JSONDecodeError"}}

Outcomes == TransportOutcomes \cup RateLimited \cup BadStatus \cup Ok200

Net(o) == [ev |-> "net", o |-> o, dur |-> 0]
Sleep(d) == [ev |-> "sleep", o |-> Outcome("-", 0, NoHeader, "-", "-"), dur |-> d]


\* ------------------------------------------------------------------------
\* BlinkoService._make_request / BlinkoAPI._make_request: one pass of the
\* `while retries < self.max_retries` loop
\* ------------------------------------------------------------------------

\* int(response.headers.get('Retry-After', self.retry_delay)) raises ValueError
RetryAfterRaises(h) == h.present /\ ~IntParses(h.text)

RetryAfter(h) == IF h.present THEN DecimalValue(h.text) ELSE retry_delay

\* the exception raised inside the try block by an attempt, "none" if none
ExcOf(o) ==
    IF o.kind # "response" THEN o.kind
    ELSE IF o.status = 429 THEN (IF RetryAfterRaises(o.header) THEN "ValueError" ELSE "none")
    ELSE IF o.status = 200 /\ o.json # "json" THEN o.json
    ELSE "none"

\* aiohttp: ContentTypeError < ClientResponseError < ClientError
IsClientError(e) == e \in {"ClientError", "ContentTypeError"}

\* which except clause takes the exception
ExceptClause(e) ==
    IF e = "TimeoutError" THEN "timeout"
    ELSE IF IsClientError(e) THEN "client"
    ELSE "generic"

Frame(r, le, evs, ret) == [retries |-> r, last_exception |-> le, evs |-> evs, ret |-> ret]

\* status == 429 branch: sleep retry_after, retries += 1, continue
On429(r, le, o) ==
    Frame(r + 1, le, <<Net(o), Sleep(RetryAfter(o.header))>>, NoResult)

\* variant of OnBadStatus: a 5xx answer is retried like a transport failure
OnBadStatus_Retry5xx(r, le, o) ==
    IF o.status >= 500
    THEN Frame(r + 1, le,
               IF r + 1 < max_retries THEN <<Net(o), Sleep(retry_delay * (r + 1))>> ELSE <<Net(o)>>,
               NoResult)
    ELSE Frame(r, le, <<Net(o)>>, ErrorResult("request_failed", o.status, "-", o.body))


\* status != 200 branch: return {"error": "请求失败: <status>", "details": text}
OnBadStatus(r, le, o) ==
    Frame(r, le, <<Net(o)>>, ErrorResult("request_failed", o.status, "-", o.body))

\* return await response.json()
OnJson(r, le, o) == Frame(r, le, <<Net(o)>>, Decoded(o.body))

\* variant of OnTransport: last_exception is not recorded
OnTransport_LastNotKept(r, le, o, e) ==
    Frame(r + 1, le,
          IF r + 1 < max_retries THEN <<Net(o), Sleep(retry_delay * (r + 1))>> ELSE <<Net(o)>>,
          NoResult)


\* variant of OnTransport: every wait is the base delay
OnTransport_ConstantDelay(r, le, o, e) ==
    Frame(r + 1, e,
          IF r + 1 < max_retries THEN <<Net(o), Sleep(retry_delay)>> ELSE <<Net(o)>>,
          NoResult)

\* except asyncio.TimeoutError / except ClientError, then
\* retries += 1; if retries < max_retries: sleep(retry_delay * retries)
OnTransport(r, le, o, e) ==
    Frame(r + 1, e,
          IF r + 1 < max_retries THEN <<Net(o), Sleep(retry_delay * (r + 1))>> ELSE <<Net(o)>>,
          NoResult)

\* except Exception: return {"error": "请求异常: ..."}
OnUnexpected(r, le, o, e) ==
    Frame(r, le, <<Net(o)>>, ErrorResult("exception", 0, e, "-"))

\* return {"error": "重试3次后失败: <last_exception>"}
Exhausted(le) == ErrorResult("retries_exhausted", 0, le, "-")

LoopBody(r, le, o) ==
    LET e == ExcOf(o) IN
    IF e # "none" THEN
        (IF ExceptClause(e) = "generic" THEN OnUnexpected(r, le, o, e)
         ELSE OnTransport(r, le, o, e))
    ELSE IF o.status = 429 THEN On429(r, le, o)
    ELSE IF o.status # 200 THEN OnBadStatus(r, le, o)
    ELSE OnJson(r, le, o)

\* variant of MakeRequestPass: the loop condition taken as retries <= max_retries
MakeRequestPass_OffByOne(r, le, o) ==
    LET f == LoopBody(r, le, o) IN
    IF f.ret = NoResult /\ ~(f.retries <= max_retries)
    THEN Frame(f.retries, f.last_exception, f.evs, Exhausted(f.last_exception))
    ELSE f


\* one pass of the loop followed by the re-evaluation of the while condition
MakeRequestPass(r, le, o) ==
    LET f == LoopBody(r, le, o) IN
    IF f.ret = NoResult /\ ~(f.retries < max_retries)
    THEN Frame(f.retries, f.last_exception, f.evs, Exhausted(f.last_exception))
    ELSE f

\* ------------------------------------------------------------------------
\* BlinkoService: construction, configuration check, typed operations
\* ------------------------------------------------------------------------
UrlConfigs ==
    {[kind |-> k, text |-> <<>>] : k \in {"missing", "None"}}
    \cup {[kind |-> "str", text |-> t] : t \in SeqsUpTo(UrlChars, MaxUrlLen)}
TokenValues == {Py_None, "", "tok"}
BlinkoConfigs == [url : UrlConfigs, token : TokenValues]

NoClient == [cls |-> "none", base_url |-> <<>>, token |-> Py_None, api_key |-> Py_None]

\* config.get("blinko_url", "").rstrip("/") raises AttributeError on None
BlinkoInitRaises(cfg) == cfg.url.kind = "None"

BlinkoServiceInit(cfg) ==
    [cls |-> "BlinkoService", base_url |-> rstrip(cfg.url.text),
     token |-> cfg.token, api_key |-> Py_None]

Truthy(v) == v \notin {Py_None, ""}

\* variant of NotConfigured: only the base URL is looked at
NotConfigured_UrlOnly(c) == c.base_url = <<>>


\* if not self.base_url or not self.token
NotConfigured(c) == c.base_url = <<>> \/ ~Truthy(c.token)

OpRet(ret, exc) == [ret |-> ret, raised |-> exc]

\* "error" in result
HasErrorKey(res) == res.tag = "error" \/ (res.tag = "decoded" /\ res.body = "dict_error")

upload_file_by_url(res) ==
    IF res.tag = "decoded" /\ res.body = "list" THEN OpRet(NoResult, "TypeError")
    ELSE IF HasErrorKey(res) THEN OpRet(Res("error", res.err, res.status, res.last, res.body), "none")
    ELSE IF res.body = "dict_expected" THEN OpRet(Res("ok", "-", 200, "-", "file_info"), "none")
    ELSE OpRet(NoResult, "KeyError")

save_note(res) ==
    IF res.tag = "decoded" /\ res.body = "dict_empty"
        THEN OpRet(ErrorResult("no_response", 0, "-", "-"), "none")
    ELSE IF res.tag = "decoded" /\ res.body = "list"
        THEN OpRet(ErrorResult("exception", 0, "AttributeError", "-"), "none")
    ELSE IF res.tag = "decoded" /\ res.body = "dict_expected"
        THEN OpRet(Res("ok", "-", 200, "-", "note_ref"), "none")
    ELSE OpRet(ErrorResult("save_failed", 0, "-", "-"), "none")

get_tags(res) ==
    IF HasErrorKey(res) THEN OpRet(ErrorResult(res.err, res.status, res.last, "-"), "none")
    ELSE OpRet(res, "none")

BlinkoOps == {"get_tags", "upload_file_by_url", "save_note"}
ApiOps == {"send_text"}

Wrap(op, res) ==
    CASE op = "get_tags" -> get_tags(res)
      [] op = "upload_file_by_url" -> upload_file_by_url(res)
      [] op = "save_note" -> save_note(res)
      [] OTHER -> OpRet(res, "none")


\* ------------------------------------------------------------------------
\* AIService
\* ------------------------------------------------------------------------
ApiKeys == {Py_None, "", "key"}

\* self.api_key = config.get("openai_key")
AIServiceInit(key) ==
    [cls |-> "AIService", base_url |-> <<"h">>, token |-> Py_None, api_key |-> key]

\* AIService._make_request: one POST; 200 -> response.json(), any other
\* status -> None, any exception -> None
AIMakeRequest(o) ==
    IF ExcOf(o) = "none" /\ o.kind = "response" /\ o.status = 200 THEN Decoded(o.body)
    ELSE NoneResult

\* describe_image: `if response and response.get("choices")`, every exception -> None
describe_image(res) ==
    IF res.tag = "decoded" /\ res.body = "dict_expected"
    THEN OpRet(Res("ok", "-", 200, "-", "description"), "none")
    ELSE OpRet(NoneResult, "none")

\* parse_file: fixed strings, no request
parse_file == OpRet(Res("ok", "-", 0, "-", "stub_text"), "none")

AIOps == {"summarize", "generate_tags", "describe_image", "parse_file"}

\* summarize -> _call_openai -> self._make_request(url, headers=..., json=...):
\* _make_request(self, endpoint, data) takes no such keywords.
\* generate_tags(contents, existing_tags): the two-argument definition is
\* replaced by the later generate_tags(self, content) of the class body.
AICallRaises(op) == op \in {"summarize", "generate_tags"}

\* ------------------------------------------------------------------------
\* The client machine: construct a client, call an operation, let the
\* network answer each attempt
\* ------------------------------------------------------------------------
Idle == [op |-> "none", pc |-> "idle"]

NoCallInFlight == call.pc \in {"idle", "done"}

Fresh ==
    /\ retries' = 0
    /\ last_exception' = Py_None
    /\ log' = <<>>
    /\ result' = NoResult
    /\ op_result' = NoResult

NewBlinkoService(cfg) ==
    /\ UNCHANGED <<sessionVars, loopVars, parseVars>>
    /\ NoCallInFlight
    /\ client' = IF BlinkoInitRaises(cfg) THEN NoClient ELSE BlinkoServiceInit(cfg)
    /\ raised' = IF BlinkoInitRaises(cfg) THEN "AttributeError" ELSE "none"
    /\ call' = Idle
    /\ Fresh

NewBlinkoAPI ==
    /\ UNCHANGED <<sessionVars, loopVars, parseVars>>
    /\ NoCallInFlight
    /\ client' = [cls |-> "BlinkoAPI", base_url |-> <<"h">>, token |-> "tok", api_key |-> Py_None]
    /\ raised' = "none"
    /\ call' = Idle
    /\ Fresh

NewAIService(key) ==
    /\ UNCHANGED <<sessionVars, loopVars, parseVars>>
    /\ NoCallInFlight
    /\ client' = AIServiceInit(key)
    /\ raised' = "none"
    /\ call' = Idle
    /\ Fresh

\* a typed BlinkoService operation up to its first await on the network
CallBlinko(op) ==
    /\ UNCHANGED <<sessionVars, loopVars, parseVars>>
    /\ NoCallInFlight
    /\ client.cls = "BlinkoService"
    /\ retries' = 0
    /\ last_exception' = Py_None
    /\ log' = <<>>
    /\ IF NotConfigured(client)
       THEN LET r == ErrorResult("not_configured", 0, "-", "-") IN
            /\ result' = r
            /\ op_result' = Wrap(op, r).ret
            /\ raised' = Wrap(op, r).raised
            /\ call' = [op |-> op, pc |-> "done"]
       ELSE /\ result' = NoResult
            /\ op_result' = NoResult
            /\ raised' = "none"
            /\ call' = [op |-> op, pc |-> "loop"]
    /\ UNCHANGED client

\* BlinkoAPI has no configuration check
CallBlinkoAPI(op) ==
    /\ UNCHANGED <<sessionVars, loopVars, parseVars>>
    /\ NoCallInFlight
    /\ client.cls = "BlinkoAPI"
    /\ Fresh
    /\ raised' = "none"
    /\ call' = [op |-> op, pc |-> "loop"]
    /\ UNCHANGED client

\* one pass of the retry loop and, when it returns, the rest of the operation
Attempt(o) ==
    /\ UNCHANGED <<sessionVars, loopVars, parseVars>>
    /\ call.pc = "loop"
    /\ LET f == MakeRequestPass(retries, last_exception, o) IN
       /\ retries' = f.retries
       /\ last_exception' = f.last_exception
       /\ log' = log \o f.evs
       /\ result' = f.ret
       /\ IF f.ret = NoResult
          THEN UNCHANGED <<call, op_result, raised>>
          ELSE /\ call' = [call EXCEPT !.pc = "done"]
               /\ op_result' = Wrap(call.op, f.ret).ret
               /\ raised' = Wrap(call.op, f.ret).raised
    /\ UNCHANGED client

CallAI(op) ==
    /\ UNCHANGED <<sessionVars, loopVars, parseVars>>
    /\ NoCallInFlight
    /\ client.cls = "AIService"
    /\ Fresh
    /\ IF AICallRaises(op)
       THEN /\ raised' = "TypeError"
            /\ call' = [op |-> op, pc |-> "done"]
       ELSE IF op = "parse_file"
       THEN /\ raised' = "none"
            /\ call' = [op |-> op, pc |-> "done"]
       ELSE /\ raised' = "none"
            /\ call' = [op |-> op, pc |-> "ai_request"]
    /\ UNCHANGED client

AIAttempt(o) ==
    /\ UNCHANGED <<sessionVars, loopVars, parseVars>>
    /\ call.pc = "ai_request"
    /\ log' = log \o <<Net(o)>>
    /\ result' = AIMakeRequest(o)
    /\ op_result' = describe_image(AIMakeRequest(o)).ret
    /\ raised' = describe_image(AIMakeRequest(o)).raised
    /\ call' = [call EXCEPT !.pc = "done"]
    /\ UNCHANGED <<client, retries, last_exception>>

\* ------------------------------------------------------------------------
\* The composition session (src/models/session.py)
\* ------------------------------------------------------------------------
INITIAL == "INITIAL"
COLLECTING == "COLLECTING"
AWAITING_ACTION == "AWAITING_ACTION"
SUMMARIZING == "SUMMARIZING"
SELECTING_TAGS == "SELECTING_TAGS"
PARSING_CONTENT == "PARSING_CONTENT"

TEXT == "TEXT"
IMAGE == "IMAGE"
AUDIO == "AUDIO"
VIDEO == "VIDEO"
URL == "URL"
FILE == "FILE"

\* UserSession(): the field defaults of the dataclass
UserSession ==
    [contents |-> <<>>, files |-> <<>>, current_summary |-> Py_None,
     selected_tags |-> <<>>, state |-> INITIAL, last_state |-> Py_None]

NoteContent(type, content) == [type |-> type, content |-> content]

\* variant of add_content: the new item is put in front
add_content_InFront(S, type, content) ==
    [S EXCEPT !.contents = <<NoteContent(type, content)>> \o @]

add_content_DropsEarlier(S, type, content) ==
    [S EXCEPT !.contents = <<NoteContent(type, content)>>]

add_content(S, type, content) ==
    [S EXCEPT !.contents = Append(@, NoteContent(type, content))]

\* variant of clear: the pending files are left in place
clear_KeepsFiles(S) ==
    [S EXCEPT !.contents = <<>>, !.current_summary = Py_None,
              !.selected_tags = <<>>, !.state = INITIAL, !.last_state = Py_None]

\* variant of clear: the selected tags are left in place
clear_KeepsTags(S) ==
    [S EXCEPT !.contents = <<>>, !.files = <<>>, !.current_summary = Py_None,
              !.state = INITIAL, !.last_state = Py_None]


\* variant of clear: the state is left as it is
clear_KeepsState(S) ==
    [S EXCEPT !.contents = <<>>, !.files = <<>>, !.current_summary = Py_None,
              !.selected_tags = <<>>, !.last_state = Py_None]

clear(S) ==
    [S EXCEPT !.contents = <<>>, !.files = <<>>, !.current_summary = Py_None,
              !.selected_tags = <<>>, !.state = INITIAL, !.last_state = Py_None]

\* ------------------------------------------------------------------------
\* The user table read by _init_services (src/models/user.py): a row made
\* by /start has blinko_url and blinko_token None until they are set
\* ------------------------------------------------------------------------
Users == {"alice", "carol", "dave"}

Row(present, url, token) == [present |-> present, url |-> url, token |-> token]

\* alice has set both values, carol only the URL, dave never sent /start
UserTable ==
    [u \in Users |->
        CASE u = "alice" -> Row(TRUE, [kind |-> "str", text |-> <<"h", "/">>], "tok")
          [] u = "carol" -> Row(TRUE, [kind |-> "str", text |-> <<"h">>], Py_None)
          [] u = "dave"  -> Row(FALSE, [kind |-> "None", text |-> <<>>], Py_None)]

\* _init_services: the exception it raises for this user, "none" if none
InitRaises(u) ==
    IF ~UserTable[u].present THEN "ValueError"
    ELSE IF BlinkoInitRaises([url |-> UserTable[u].url, token |-> UserTable[u].token])
    THEN "AttributeError"
    ELSE "none"

\* self.blinko_service after _init_services
blinko_service(u) == BlinkoServiceInit([url |-> UserTable[u].url, token |-> UserTable[u].token])

\* what BlinkoService._make_request can hand back for this service object
MakeRequestResults(svc) ==
    IF NotConfigured(svc) THEN {ErrorResult("not_configured", 0, "-", "-")}
    ELSE {Decoded("dict_expected"), Decoded("dict_other"), Decoded("list"),
          Exhausted("TimeoutError")}

\* ------------------------------------------------------------------------
\* NoteHandler (src/handlers/note_handler.py)
\* ------------------------------------------------------------------------
\* what a handler leaves behind: the session, the renderings sent to the
\* chat in order, the note-service calls made in order, and the exception
\* class that left the handler ("none" if none)
Handled(S, rs, cs, exc) == [sess |-> S, out |-> rs, calls |-> cs, propagated |-> exc]

Render(kind, options) == [kind |-> kind, options |-> options]

\* inbound messages, by what _detect_message_type looks at
Messages ==
    {[kind |-> "text", payload |-> "buy milk"],
     [kind |-> "text_with_url", payload |-> "http://x"],
     [kind |-> "photo", payload |-> "f1"],
     [kind |-> "photo_expired", payload |-> "f2"]}

_detect_message_type(m) ==
    CASE m.kind = "text" -> TEXT
      [] m.kind = "text_with_url" -> URL
      [] m.kind = "photo" -> IMAGE
      [] m.kind = "photo_expired" -> IMAGE
      [] m.kind = "audio" -> AUDIO
      [] m.kind = "video" -> VIDEO
      [] m.kind = "document" -> FILE
      [] OTHER -> TEXT

IsMedia(type) == type \in {IMAGE, AUDIO, VIDEO, FILE}

\* file_info of a media message; its file_url is the locator
FileInfo(m) == [file_url |-> m.payload]

\* _process_message: append the content, and the file for a media message
_process_message(S, type, m) ==
    IF IsMedia(type)
    THEN [add_content(S, type, <<m.payload>>) EXCEPT !.files = Append(@, FileInfo(m))]
    ELSE add_content(S, type, <<m.payload>>)

\* an action token (callback_data) is a string; "tag_" is kept as one piece
\* of it so that startswith("tag_") and replace("tag_", "") can be computed
T(name) == <<name>>

\* _show_action_buttons: the option set, parse / parse_url inserted before cancel
ActionButtons(S) ==
    LET n == Len(S.contents) IN
    IF n > 0 /\ IsMedia(S.contents[n].type)
        THEN <<T("continue"), T("save"), T("summarize"), T("tags"), T("parse"), T("cancel")>>
    ELSE IF n > 0 /\ S.contents[n].type = URL
        THEN <<T("continue"), T("save"), T("summarize"), T("tags"), T("parse_url"), T("cancel")>>
    ELSE <<T("continue"), T("save"), T("summarize"), T("tags"), T("cancel")>>

_show_action_buttons(S) == Render("menu", ActionButtons(S))

\* await message.photo[-1].get_file() raises for a photo that Telegram no
\* longer serves; _process_message logs and re-raises
get_file_raises(m) == m.kind = "photo_expired"

\* variant of handle_message: the except clause does not clear the session
handle_message_KeepsOnError(S, u, m) ==
    IF InitRaises(u) # "none" \/ get_file_raises(m)
    THEN Handled(S, <<Render("message_error", <<>>)>>, <<>>, "none")
    ELSE
        LET S1 == IF S.state = INITIAL THEN [clear(S) EXCEPT !.state = COLLECTING] ELSE S
            S2 == _process_message(S1, _detect_message_type(m), m)
        IN  IF S2.state = COLLECTING
            THEN Handled([S2 EXCEPT !.state = AWAITING_ACTION], <<_show_action_buttons(S2)>>, <<>>, "none")
            ELSE Handled(S2, <<>>, <<>>, "none")

\* an exception from _init_services or from _process_message ends in the
\* except clause: the error text is sent and the session is cleared
handle_message(S, u, m) ==
    IF InitRaises(u) # "none" \/ get_file_raises(m)
    THEN Handled(clear(S), <<Render("message_error", <<>>)>>, <<>>, "none")
    ELSE
        LET S1 == IF S.state = INITIAL THEN [clear(S) EXCEPT !.state = COLLECTING] ELSE S
            S2 == _process_message(S1, _detect_message_type(m), m)
        IN  IF S2.state = COLLECTING
            THEN Handled([S2 EXCEPT !.state = AWAITING_ACTION], <<_show_action_buttons(S2)>>, <<>>, "none")
            ELSE Handled(S2, <<>>, <<>>, "none")

\* ---- _save_note ----------------------------------------------------------
JinaResults == {"parsed", "none"}

\* the text a content item contributes to the note; media items contribute none
NotePart(c, j) ==
    IF c.type = TEXT THEN c.content
    ELSE IF j = "parsed" THEN <<"URL: ">> \o c.content \o <<"\n", "jina text">>
    ELSE <<"URL: ">> \o c.content

RECURSIVE NoteParts(_, _, _)
NoteParts(cs, jn, i) ==
    IF i > Len(cs) THEN <<>>
    ELSE (IF cs[i].type \in {TEXT, URL} THEN <<NotePart(cs[i], jn[i])>> ELSE <<>>)
         \o NoteParts(cs, jn, i + 1)

\* sep.join(parts), each part a sequence of pieces
RECURSIVE Join(_, _)
Join(sep, parts) ==
    IF parts = <<>> THEN <<>>
    ELSE IF Len(parts) = 1 THEN parts[1]
    ELSE parts[1] \o <<sep>> \o Join(sep, Tail(parts))

Invocation(op, content, attachments, has_attachments) ==
    [op |-> op, content |-> content, attachments |-> attachments,
     has_attachments |-> has_attachments]

\* index of the first upload that raises, 0 if none does
FirstRaise(files, ups) ==
    LET R == {i \in 1..Len(files) : upload_file_by_url(ups[i]).raised # "none"} IN
    IF R = {} THEN 0 ELSE CHOOSE i \in R : \A j \in R : i <= j

\* variant of Uploaded: every pending file is attached, uploaded or not
Uploaded_AllFiles(files, ups, i, n) == [k \in 1..n |-> files[k].file_url]

\* variant of Uploaded: only the first upload is kept
Uploaded_FirstOnly(files, ups, i, n) ==
    IF n >= 1 /\ upload_file_by_url(ups[1]).ret.tag = "ok" THEN <<files[1].file_url>> ELSE <<>>

\* uploaded_files: the results of the uploads that returned without "error"
RECURSIVE Uploaded(_, _, _, _)
Uploaded(files, ups, i, n) ==
    IF i > n THEN <<>>
    ELSE (IF upload_file_by_url(ups[i]).ret.tag = "ok" THEN <<files[i].file_url>> ELSE <<>>)
         \o Uploaded(files, ups, i + 1, n)

UploadCalls(files, n) ==
    [i \in 1..n |-> Invocation("upload_file_by_url", <<files[i].file_url>>, <<>>, FALSE)]

\* the outcome of _save_note: renderings, calls, and the exception it re-raises
_save_note(S, ups, sv, jn) ==
    LET note_content == Join("\n\n", NoteParts(S.contents, jn, 1))
        fr == FirstRaise(S.files, ups)
        uploaded == Uploaded(S.files, ups, 1, Len(S.files))
        upsert == Invocation("save_note", note_content, uploaded, uploaded # <<>>)
    IN  IF fr # 0
        THEN [out |-> <<Render("save_failed", <<>>)>>,
              calls |-> UploadCalls(S.files, fr),
              exc |-> upload_file_by_url(ups[fr]).raised]
        ELSE IF save_note(sv).ret.tag = "error"
        THEN [out |-> <<Render("save_failed", <<>>)>>,
              calls |-> UploadCalls(S.files, Len(S.files)) \o <<upsert>>,
              exc |-> "Exception"]
        ELSE [out |-> <<Render("saved", <<>>)>>,
              calls |-> UploadCalls(S.files, Len(S.files)) \o <<upsert>>,
              exc |-> "none"]

\* ---- handle_callback: the branches of the dispatch chain -------------------
Branch(S, rs, cs, exc) == [sess |-> S, out |-> rs, calls |-> cs, exc |-> exc]

TagNames == {<<"a">>, <<"b">>}

\* the tag names listed by the note service when it answers with a list
ExistingTagNames(et) ==
    IF et.tag = "decoded" /\ et.body = "list" THEN << <<"a">>, <<"b">> >> ELSE <<>>

\* action.replace("tag_", ""): every occurrence of "tag_" is removed
RemoveTagPrefix(token) == SelectSeq(token, LAMBDA x : x # "tag_")

IsIn(x, seq) == \E i \in DOMAIN seq : seq[i] = x

\* list.remove(x): the first occurrence
Remove(seq, x) ==
    LET i == CHOOSE k \in DOMAIN seq : seq[k] = x /\ \A j \in 1..(k - 1) : seq[j] # x
    IN  SubSeq(seq, 1, i - 1) \o SubSeq(seq, i + 1, Len(seq))

Toggle(selected, tag) ==
    IF IsIn(tag, selected) THEN Remove(selected, tag) ELSE Append(selected, tag)

\* " ".join(f"#{tag}" for tag in selected_tags)
RECURSIVE TagsText(_)
TagsText(selected) ==
    IF selected = <<>> THEN <<>>
    ELSE IF Len(selected) = 1 THEN <<"#">> \o selected[1]
    ELSE <<"#">> \o selected[1] \o <<" ">> \o TagsText(Tail(selected))

TagMenu(names) ==
    Render("tag_menu",
           [i \in 1..Len(names) |-> <<"tag_">> \o names[i]] \o <<T("save_tags"), T("back")>>)

ParseFileText(type) ==
    CASE type = IMAGE -> "image stub"
      [] type = AUDIO -> "audio stub"
      [] type = VIDEO -> "video stub"
      [] OTHER -> "unsupported type"

\* variant of OnContinue: the prompt is sent and the state is left as it is
OnContinue_KeepsState(S) ==
    Branch(S, <<Render("continue_prompt", <<>>)>>, <<>>, "none")

OnContinue(S) ==
    Branch([S EXCEPT !.state = COLLECTING], <<Render("continue_prompt", <<>>)>>, <<>>, "none")

\* variant of OnSave: the session is cleared whether or not _save_note raised
OnSave_AlwaysClear(S, ups, sv, jn) ==
    LET sn == _save_note(S, ups, sv, jn) IN
    Branch(clear(S), sn.out, sn.calls, sn.exc)


OnSave(S, ups, sv, jn) ==
    LET sn == _save_note(S, ups, sv, jn) IN
    IF sn.exc # "none" THEN Branch(S, sn.out, sn.calls, sn.exc)
    ELSE Branch(clear(S), sn.out, sn.calls, "none")

OnSummarize(S) ==
    LET S1 == [S EXCEPT !.state = SUMMARIZING] IN
    IF AICallRaises("summarize") THEN Branch(S1, <<>>, <<>>, "TypeError")
    ELSE Branch([S1 EXCEPT !.current_summary = "summary text"],
                <<Render("summary", <<T("save_summary"), T("summarize"), T("back")>>)>>,
                <<>>, "none")

OnSaveSummary(S) ==
    IF Truthy(S.current_summary)
    THEN LET S1 == add_content(S, TEXT, <<S.current_summary>>) IN
         Branch(S1, <<_show_action_buttons(S1)>>, <<>>, "none")
    ELSE Branch(S, <<Render("no_summary", <<>>)>>, <<>>, "none")

OnTags(S, gt) ==
    LET S1 == [S EXCEPT !.state = SELECTING_TAGS]
        existing_tags == get_tags(gt).ret
        cs == <<Invocation("get_tags", <<>>, <<>>, FALSE)>>
    IN  IF existing_tags.tag = "error" THEN Branch(S1, <<>>, cs, "Exception")
        ELSE IF AICallRaises("generate_tags") THEN Branch(S1, <<>>, cs, "TypeError")
        ELSE Branch(S1, <<TagMenu(<<>>)>>, cs, "none")

\* variant of OnTagToggle: the toggle also moves the session to SELECTING_TAGS
OnTagToggle_ToSelectingTags(S, token, gt) ==
    LET S1 == [S EXCEPT !.selected_tags = Toggle(@, RemoveTagPrefix(token)),
                        !.state = SELECTING_TAGS] IN
    Branch(S1, <<TagMenu(ExistingTagNames(get_tags(gt).ret))>>,
           <<Invocation("get_tags", <<>>, <<>>, FALSE)>>, "none")

OnTagToggle(S, token, gt) ==
    LET S1 == [S EXCEPT !.selected_tags = Toggle(@, RemoveTagPrefix(token))] IN
    Branch(S1, <<TagMenu(ExistingTagNames(get_tags(gt).ret))>>,
           <<Invocation("get_tags", <<>>, <<>>, FALSE)>>, "none")

\* variant of OnSaveTags: the tag text always goes into a new text item
OnSaveTags_AlwaysNewItem(S) ==
    LET tags_text == TagsText(S.selected_tags)
        S1 == IF S.contents = <<>> THEN S ELSE add_content(S, TEXT, tags_text)
    IN  Branch(S1, <<_show_action_buttons(S1)>>, <<>>, "none")

OnSaveTags(S) ==
    LET tags_text == TagsText(S.selected_tags)
        n == Len(S.contents)
        S1 == IF n = 0 THEN S
              ELSE IF S.contents[n].type = TEXT
              THEN [S EXCEPT !.contents[n].content = @ \o <<"\n">> \o tags_text]
              ELSE add_content(S, TEXT, tags_text)
    IN  Branch(S1, <<_show_action_buttons(S1)>>, <<>>, "none")

OnParse(S) ==
    LET S1 == [S EXCEPT !.state = PARSING_CONTENT]
        n == Len(S.contents)
    IN  IF n = 0 THEN Branch(S1, <<>>, <<>>, "IndexError")
        ELSE LET S2 == add_content(S1, TEXT, <<ParseFileText(S.contents[n].type)>>) IN
             Branch(S2, <<_show_action_buttons(S2)>>, <<>>, "none")

OnCancel(S) == Branch(clear(S), <<Render("cancelled", <<>>)>>, <<>>, "none")

\* variant of OnBack: with no previous state the session goes to AWAITING_ACTION
OnBack_ToAwaitingAction(S) ==
    LET S1 == IF Truthy(S.last_state)
              THEN [S EXCEPT !.state = S.last_state, !.last_state = Py_None]
              ELSE [S EXCEPT !.state = AWAITING_ACTION]
    IN  Branch(S1, <<_show_action_buttons(S1)>>, <<>>, "none")

OnBack(S) ==
    LET S1 == IF Truthy(S.last_state)
              THEN [S EXCEPT !.state = S.last_state, !.last_state = Py_None]
              ELSE S
    IN  Branch(S1, <<_show_action_buttons(S1)>>, <<>>, "none")

\* no branch of the chain matches the token
OnUnmatched(S) == Branch(S, <<>>, <<>>, "none")

Dispatch(S, token, ups, sv, jn, gt) ==
    CASE token = T("continue") -> OnContinue(S)
      [] token = T("save") -> OnSave(S, ups, sv, jn)
      [] token = T("summarize") -> OnSummarize(S)
      [] token = T("save_summary") -> OnSaveSummary(S)
      [] token = T("tags") -> OnTags(S, gt)
      [] token # <<>> /\ token[1] = "tag_" -> OnTagToggle(S, token, gt)
      [] token = T("save_tags") -> OnSaveTags(S)
      [] token = T("parse") -> OnParse(S)
      [] token = T("cancel") -> OnCancel(S)
      [] token = T("back") -> OnBack(S)
      [] OTHER -> OnUnmatched(S)

\* variant of ErrorRendering: the retry option alone
ErrorRendering_NoCancel(token) == Render("error_retry", <<token>>)

\* the except clause of handle_callback: error text, retry and cancel options
ErrorRendering(token) == Render("error_retry", <<token, T("cancel")>>)

\* variant of handle_callback: the chain is entered in state INITIAL as well
handle_callback_NoIdleGuard(S, u, token, ups, sv, jn, gt) ==
    IF InitRaises(u) # "none"
    THEN Handled(S, <<>>, <<>>, "UnboundLocalError")
    ELSE LET b == Dispatch(S, token, ups, sv, jn, gt) IN
         IF b.exc # "none"
         THEN Handled(b.sess, b.out \o <<ErrorRendering(token)>>, b.calls, "none")
         ELSE Handled(b.sess, b.out, b.calls, "none")

handle_callback(S, u, token, ups, sv, jn, gt) ==
    IF S.state = INITIAL
    THEN Handled(S, <<Render("answer_send_message_first", <<>>)>>, <<>>, "none")
    ELSE IF InitRaises(u) # "none"
    \* the except clause reads `action`, which is not bound yet
    THEN Handled(S, <<>>, <<>>, "UnboundLocalError")
    ELSE LET b == Dispatch(S, token, ups, sv, jn, gt) IN
         IF b.exc # "none"
         THEN Handled(b.sess, b.out \o <<ErrorRendering(token)>>, b.calls, "none")
         ELSE Handled(b.sess, b.out, b.calls, "none")

\* ------------------------------------------------------------------------
\* Events: the application hands one update at a time to the handlers
\* (Application.builder() without concurrent_updates, main.py)
\* ------------------------------------------------------------------------
PlainTokens ==
    {T("continue"), T("summarize"), T("save_summary"), T("save_tags"), T("parse"),
     T("cancel"), T("back"), T("parse_url")}
TagTokens == {<<"tag_", "a">>, <<"tag_", "tag_", "a">>}

NoEvent == [kind |-> "none", user |-> "-", token |-> <<>>, from |-> INITIAL]

\* the model follows a session only as far as these bounds
Appends(content) == Cardinality({k \in DOMAIN content : content[k] = "\n"})

WithinBounds(S) ==
    /\ Len(S.contents) <= MaxItems
    /\ \A i \in DOMAIN S.contents : Appends(S.contents[i].content) <= MaxAppends

\* the answers the note service can give this user's BlinkoService
Results(u) ==
    IF InitRaises(u) # "none" THEN {ErrorResult("not_configured", 0, "-", "-")}
    ELSE MakeRequestResults(blinko_service(u))

AnyResult == ErrorResult("not_configured", 0, "-", "-")

\* messages handled since the last clear(): state INITIAL is assigned only by
\* clear(), and a message that finds the session INITIAL clears it first
ContentEvents(n, S, S1, kind) ==
    IF S1.state = INITIAL THEN 0
    ELSE IF kind # "message" THEN n
    ELSE IF S.state = INITIAL THEN 1
    ELSE n + 1

Deliver(h, kind, u, token) ==
    /\ WithinBounds(h.sess)
    /\ GLOBAL_SESSION' = h.sess
    /\ out' = h.out
    /\ calls' = h.calls
    /\ propagated' = h.propagated
    /\ ev' = [kind |-> kind, user |-> u, token |-> token, from |-> GLOBAL_SESSION.state]
    /\ received' = ContentEvents(received, GLOBAL_SESSION, h.sess, kind)
    /\ selected_before' = GLOBAL_SESSION.selected_tags
    /\ UNCHANGED <<clientVars, loopVars, parseVars>>

HandleMessage(u, m) ==
    Deliver(handle_message(GLOBAL_SESSION, u, m), "message", u, T(m.kind))

HandleCallback(u, token, ups, sv, jn, gt) ==
    Deliver(handle_callback(GLOBAL_SESSION, u, token, ups, sv, jn, gt), "callback", u, token)

NoUploads == [i \in 1..Len(GLOBAL_SESSION.files) |-> AnyResult]
NoJina == [i \in 1..Len(GLOBAL_SESSION.contents) |-> "none"]

\* one JINA Reader answer for each URL item of the session
JinaAnswers(S) ==
    {f \in [1..Len(S.contents) -> JinaResults] :
        \A i \in 1..Len(S.contents) : S.contents[i].type # URL => f[i] = "none"}

SaveEvent ==
    \E u \in Users :
    \E ups \in [1..Len(GLOBAL_SESSION.files) -> Results(u)] :
    \E sv \in Results(u) :
    \E jn \in JinaAnswers(GLOBAL_SESSION) :
        HandleCallback(u, T("save"), ups, sv, jn, AnyResult)

TagsEvent ==
    \E u \in Users :
    \E token \in {T("tags")} \cup TagTokens :
    \E gt \in Results(u) :
        HandleCallback(u, token, NoUploads, AnyResult, NoJina, gt)

PlainEvent ==
    \E u \in Users :
    \E token \in PlainTokens :
        HandleCallback(u, token, NoUploads, AnyResult, NoJina, AnyResult)

MessageEvent == \E u \in Users : \E m \in Messages : HandleMessage(u, m)

NotParsed == <<[tag |-> <<>>, reason |-> <<"unset">>, is_existing |-> FALSE]>>

Init ==
    /\ client = NoClient
    /\ call = Idle
    /\ retries = 0
    /\ last_exception = Py_None
    /\ log = <<>>
    /\ result = NoResult
    /\ op_result = NoResult
    /\ raised = "none"
    /\ GLOBAL_SESSION = UserSession
    /\ ev = NoEvent
    /\ out = <<>>
    /\ calls = <<>>
    /\ propagated = "none"
    /\ received = 0
    /\ selected_before = <<>>
    /\ pending = <<>>
    /\ active = <<>>
    /\ suggestion_text = <<>>
    /\ tag_info = NotParsed

vars == <<clientVars, sessionVars, loopVars, parseVars>>

Next ==
    \/ MessageEvent
    \/ SaveEvent
    \/ TagsEvent
    \/ PlainEvent

Spec == Init /\ [][Next]_vars

ClientNext ==
    \/ \E cfg \in BlinkoConfigs : NewBlinkoService(cfg)
    \/ NewBlinkoAPI
    \/ \E key \in ApiKeys : NewAIService(key)
    \/ \E op \in BlinkoOps : CallBlinko(op)
    \/ \E op \in ApiOps : CallBlinkoAPI(op)
    \/ \E o \in Outcomes : Attempt(o)
    \/ \E op \in AIOps : CallAI(op)
    \/ \E o \in Outcomes : AIAttempt(o)

ClientSpec == Init /\ [][ClientNext]_vars

\* the event loop resumes a suspended request: a sleep ends, an attempt
\* is answered or times out (ClientTimeout(total=30))
ClientFairSpec ==
    ClientSpec /\ WF_vars(\E o \in Outcomes : Attempt(o)) /\ WF_vars(\E o \in Outcomes : AIAttempt(o))

\* ------------------------------------------------------------------------
\* The same handlers driven through the tag selection only: one configured
\* user, text and photo messages, two tag names
\* ------------------------------------------------------------------------
TagUser == "alice"

TagSelectTokens == {<<"tag_", "a">>, <<"tag_", "b">>}

TagMenuTokens == {T("save_tags"), T("continue"), T("back"), T("cancel")}

TagMessages == {m \in Messages : m.kind \in {"text", "photo"}}

TagMessageEvent == \E m \in TagMessages : HandleMessage(TagUser, m)

TagOpenEvent ==
    \E gt \in Results(TagUser) :
        HandleCallback(TagUser, T("tags"), NoUploads, AnyResult, NoJina, gt)

TagToggleEvent ==
    \E token \in TagSelectTokens :
    \E gt \in {Decoded("list"), Exhausted("TimeoutError")} :
        HandleCallback(TagUser, token, NoUploads, AnyResult, NoJina, gt)

TagMenuEvent ==
    \E token \in TagMenuTokens :
        HandleCallback(TagUser, token, NoUploads, AnyResult, NoJina, AnyResult)

TagNext ==
    \/ TagMessageEvent
    \/ TagOpenEvent
    \/ TagToggleEvent
    \/ TagMenuEvent

TagSpec == Init /\ [][TagNext]_vars

\* ------------------------------------------------------------------------
\* The update loop of the application (main.py): run_polling() puts the
\* updates in a queue; the fetcher hands them to the registered handlers.
\* Application.builder() is left at concurrent_updates = False and the
\* handlers are registered blocking, so the fetcher awaits a handler to its
\* end before it takes the next update.  A handler is followed here from
\* its start to its first awaited call and from there to its end.
\* ------------------------------------------------------------------------
\* variant of concurrent_updates: Application.builder().concurrent_updates(True)
concurrent_updates_Enabled == TRUE

concurrent_updates == FALSE

LoopUser == "alice"

Update(kind, token) == [kind |-> kind, token |-> token]

LoopUpdates ==
    {Update("message", T("text")), Update("callback", T("tags")),
     Update("callback", T("cancel"))}

LoopMessage == CHOOSE m \in Messages : m.kind = "text"

\* the handler up to its first awaited network or rendering call
BeforeAwait(S, upd) ==
    IF upd.kind = "message"
    THEN LET S1 == IF S.state = INITIAL THEN [clear(S) EXCEPT !.state = COLLECTING] ELSE S
         IN  _process_message(S1, _detect_message_type(LoopMessage), LoopMessage)
    ELSE IF S.state = INITIAL THEN S
    ELSE IF upd.token = T("tags") THEN [S EXCEPT !.state = SELECTING_TAGS]
    ELSE S

\* a text message awaits nothing unless the menu is rendered; every
\* callback awaits an answer, a note-service call or a rendering
Suspends(S, upd) == upd.kind = "message" => BeforeAwait(S, upd).state = COLLECTING

\* the handler from the return of its awaited calls to its end
AfterAwait(S, upd, from) ==
    IF upd.kind = "message" THEN [S EXCEPT !.state = AWAITING_ACTION]
    ELSE IF from = INITIAL THEN S
    ELSE IF upd.token = T("cancel") THEN clear(S)
    ELSE S

Arrive(upd) ==
    /\ Len(pending) < MaxPending
    /\ pending' = Append(pending, upd)
    /\ UNCHANGED <<active, sessionVars, clientVars, parseVars>>

\* the fetcher takes the next update and runs its handler to the first await
StartHandler ==
    /\ pending # <<>>
    /\ concurrent_updates \/ active = <<>>
    /\ LET upd == Head(pending)
           S1 == BeforeAwait(GLOBAL_SESSION, upd)
       IN  /\ WithinBounds(S1)
           /\ GLOBAL_SESSION' = S1
           /\ active' = IF Suspends(GLOBAL_SESSION, upd)
                         THEN Append(active, [upd |-> upd, from |-> GLOBAL_SESSION.state])
                         ELSE active
    /\ pending' = Tail(pending)
    /\ UNCHANGED <<ev, out, calls, propagated, received, selected_before, clientVars, parseVars>>

\* the awaited call of a suspended handler returns and the handler ends
ResumeHandler(i) ==
    /\ i \in DOMAIN active
    /\ GLOBAL_SESSION' = AfterAwait(GLOBAL_SESSION, active[i].upd, active[i].from)
    /\ active' = SubSeq(active, 1, i - 1) \o SubSeq(active, i + 1, Len(active))
    /\ UNCHANGED <<pending, ev, out, calls, propagated, received, selected_before, clientVars, parseVars>>

LoopNext ==
    \/ \E upd \in LoopUpdates : Arrive(upd)
    \/ StartHandler
    \/ \E i \in 1..MaxPending : ResumeHandler(i)

LoopSpec == Init /\ [][LoopNext]_vars

\* ------------------------------------------------------------------------
\* The parsing of the tag suggestions in the tags branch of handle_callback
\* (note_handler.py, lines 143-161), applied to every short text.  The
\* marker is one piece of the text.
\* ------------------------------------------------------------------------
\* the literal "[已有]" of line 161
Marker == "[existing]"

TextChars == {"a", "b", "-", " ", "#", "\n", Marker}

SuggestionTexts == SeqsUpTo(TextChars, MaxTextLen)

\* text.split(sep) for a one-character sep
RECURSIVE SplitOn(_, _)
SplitOn(text, sep) ==
    LET P == {i \in DOMAIN text : text[i] = sep} IN
    IF P = {} THEN <<text>>
    ELSE LET i == CHOOSE k \in P : \A j \in P : k <= j IN
         <<SubSeq(text, 1, i - 1)>> \o SplitOn(SubSeq(text, i + 1, Len(text)), sep)

\* text.strip(chars)
RECURSIVE StripChars(_, _)
StripChars(text, chars) ==
    IF text # <<>> /\ text[1] \in chars THEN StripChars(Tail(text), chars)
    ELSE IF text # <<>> /\ text[Len(text)] \in chars
    THEN StripChars(SubSeq(text, 1, Len(text) - 1), chars)
    ELSE text

Whitespace == {" ", "\n"}

\* line.split('-', 1)
SplitFirst(line, sep) ==
    LET P == {i \in DOMAIN line : line[i] = sep} IN
    IF P = {} THEN <<line>>
    ELSE LET i == CHOOSE k \in P : \A j \in P : k <= j IN
         <<SubSeq(line, 1, i - 1), SubSeq(line, i + 1, Len(line))>>

\* parts[0].strip().strip('#').strip()
TagOf(parts) == StripChars(StripChars(StripChars(parts[1], Whitespace), {"#"}), Whitespace)

\* parts[1].strip()
ReasonOf(parts) == StripChars(parts[2], Whitespace)

\* variant of IsExisting: the marker is looked for at the start of the rationale
IsExisting_Leading(reason) == reason # <<>> /\ reason[1] = Marker

\* is_existing = "[已有]" in reason
IsExisting(reason) == \E i \in DOMAIN reason : reason[i] = Marker

Suggestion(tag, reason) == [tag |-> tag, reason |-> reason, is_existing |-> IsExisting(reason)]

\* tag_info[tag] = reason: a dict keeps the place of a key it already has
DictSet(info, tag, reason) ==
    IF \E i \in DOMAIN info : info[i].tag = tag
    THEN [i \in DOMAIN info |-> IF info[i].tag = tag THEN Suggestion(tag, reason) ELSE info[i]]
    ELSE Append(info, Suggestion(tag, reason))

\* the body of `for line in tags_text.split('\n')`
ParseLine(info, line) ==
    IF StripChars(line, Whitespace) = <<>> THEN info
    ELSE LET parts == SplitFirst(line, "-") IN
         IF Len(parts) = 2 /\ TagOf(parts) # <<>>
         THEN DictSet(info, TagOf(parts), ReasonOf(parts))
         ELSE info

RECURSIVE ParseLines(_, _)
ParseLines(info, lines) ==
    IF lines = <<>> THEN info ELSE ParseLines(ParseLine(info, lines[1]), Tail(lines))

ParseSuggestions(text) == ParseLines(<<>>, SplitOn(text, "\n"))

ParseInit ==
    /\ client = NoClient
    /\ call = Idle
    /\ retries = 0
    /\ last_exception = Py_None
    /\ log = <<>>
    /\ result = NoResult
    /\ op_result = NoResult
    /\ raised = "none"
    /\ GLOBAL_SESSION = UserSession
    /\ ev = NoEvent
    /\ out = <<>>
    /\ calls = <<>>
    /\ propagated = "none"
    /\ received = 0
    /\ selected_before = <<>>
    /\ pending = <<>>
    /\ active = <<>>
    /\ suggestion_text \in SuggestionTexts
    /\ tag_info = NotParsed

ParseTags ==
    /\ tag_info = NotParsed
    /\ tag_info' = ParseSuggestions(suggestion_text)
    /\ UNCHANGED <<suggestion_text, clientVars, sessionVars, loopVars>>

ParseNext == ParseTags

ParseSpec == ParseInit /\ [][ParseNext]_vars

\* ========================================================================
\* Properties of the request clients
\* ========================================================================
NetIdx == {i \in DOMAIN log : log[i].ev = "net"}
NetCount == Cardinality(NetIdx)

RetryingClient == client.cls \in {"BlinkoService", "BlinkoAPI"}

IsTransportFailure(o) == o.kind \in {"TimeoutError", "ClientError"}
Is429(o) == o.kind = "response" /\ o.status = 429

\* attempts that used up one unit of the budget: a 429 the client waited
\* on, or a failure taken by one of the two transport except clauses
ConsumedUnits ==
    Cardinality({i \in NetIdx :
        \/ IsTransportFailure(log[i].o)
        \/ (Is429(log[i].o) /\ ~RetryAfterRaises(log[i].o.header))
        \/ (log[i].o.kind = "response" /\ log[i].o.status = 200
            /\ log[i].o.json = "ContentTypeError")})

\* C3: one request execution makes at most max_retries (3) network attempts
\* whatever the server answers; every 429 waited on and every transport
\* failure takes one unit of the same counter; and the execution always ends.
C3_AttemptBudget ==
    /\ [](RetryingClient =>
            /\ NetCount <= max_retries
            /\ retries = ConsumedUnits
            /\ (call.pc = "loop" => retries < max_retries /\ retries = NetCount))
    /\ ((call.pc = "loop") ~> (call.pc = "done"))

C3_Witness ==
    /\ RetryingClient
    /\ call.pc = "done"
    /\ NetCount = 3
    /\ \E i \in NetIdx : Is429(log[i].o)
    /\ \E i \in NetIdx : IsTransportFailure(log[i].o)

\* C4: when the first three attempts of an execution all fail at transport
\* level, the execution is over, its result is the retries-exhausted error
\* carrying the third failure, and there is no fourth attempt.
C4_ExhaustedAfterThreeFailures ==
    (RetryingClient /\ NetCount >= 3
       /\ \A i \in NetIdx : IsTransportFailure(log[i].o))
    => /\ call.pc = "done"
       /\ NetCount = 3
       /\ result = ErrorResult("retries_exhausted", 0, log[Len(log)].o.kind, "-")

C4_Witness ==
    /\ RetryingClient
    /\ NetCount = 3
    /\ \A i \in NetIdx : IsTransportFailure(log[i].o)
    /\ log[1].o.kind = "ClientError"
    /\ log[Len(log)].o.kind = "TimeoutError"
    /\ call.pc = "done"

\* C5: a response whose status is neither 200 nor 429 ends the execution on
\* that attempt with the request-failed error carrying that status and
\* body, whatever number of attempts came before it.
C5_BadStatusIsTerminal ==
    RetryingClient =>
        \A i \in NetIdx :
            (log[i].o.kind = "response" /\ log[i].o.status \notin {200, 429})
            => /\ i = Len(log)
               /\ call.pc = "done"
               /\ result = ErrorResult("request_failed", log[i].o.status, "-", log[i].o.body)

C5_Witness ==
    /\ RetryingClient
    /\ NetCount = 3
    /\ log[Len(log)].ev = "net"
    /\ log[Len(log)].o.kind = "response"
    /\ log[Len(log)].o.status = 500
    /\ result.tag = "error"
    /\ result.err = "request_failed"

\* the wait the specification prescribes for a 429
PrescribedWait(h) == IF h.present /\ IntParses(h.text) THEN DecimalValue(h.text) ELSE 1

\* C6: every 429 is followed by a suspension of the Retry-After duration, or
\* of 1 second when the header is absent or is not an integer, and then by
\* a retry (as far as the budget of C3 allows one).
C6_WaitThenRetryOn429 ==
    RetryingClient =>
        \A i \in NetIdx :
            Is429(log[i].o)
            => /\ i < Len(log)
               /\ log[i + 1] = Sleep(PrescribedWait(log[i].o.header))
               /\ \/ i + 1 < Len(log)
                  \/ call.pc = "loop"
                  \/ retries >= max_retries

\* C7: a 200 response whose body does not decode as JSON ends the execution
\* on that attempt with an error, whichever way the decoding fails.
C7_DecodeFailureIsTerminal ==
    RetryingClient =>
        \A i \in NetIdx :
            (log[i].o.kind = "response" /\ log[i].o.status = 200 /\ log[i].o.json # "json")
            => /\ i = Len(log)
               /\ call.pc = "done"
               /\ result.tag = "error"

\* C8: whatever an attempt comes back with, _make_request hands its caller
\* the decoded response or an error-tagged result, and nothing is raised.
C8_AlwaysTaggedResult ==
    (call.pc = "done" /\ result # NoResult)
    => result.tag \in {"decoded", "error"}

BaseUrlAbsent == client.base_url = <<>>
CredentialAbsent == client.token \in {Py_None, ""}

\* C9: with no base URL or no credential, a note-service operation never
\* reaches the network: it is over at once with an error-shaped result.
C9_NotConfiguredShortCircuits ==
    (client.cls = "BlinkoService" /\ (BaseUrlAbsent \/ CredentialAbsent))
    => /\ call.pc # "loop"
       /\ log = <<>>
       /\ (call.pc = "done" => op_result.tag = "error" /\ raised = "none")

C9_Witness ==
    /\ client.cls = "BlinkoService"
    /\ BaseUrlAbsent
    /\ ~CredentialAbsent
    /\ call = [op |-> "save_note", pc |-> "done"]
    /\ op_result.tag = "error"

\* C10: with no API key, an AI operation makes no network call and ends
\* with a configuration error.
C10_MissingKeyShortCircuits ==
    (client.cls = "AIService" /\ client.api_key \in {Py_None, ""})
    => /\ call.pc # "ai_request"
       /\ log = <<>>
       /\ (call.pc = "done" =>
             /\ raised = "none"
             /\ op_result.tag = "error"
             /\ op_result.err = "not_configured")

\* the outcomes the AI client has been answered with, in order
Answers == [i \in 1..Len(log) |-> log[i].o]

\* BlinkoService._make_request run on a sequence of answers from a given
\* frame: the attempts it makes and what it returns (NoResult when the
\* answers run out before it has returned)
RECURSIVE MakeRequestRun(_, _, _, _)
MakeRequestRun(r, le, os, n) ==
    IF os = <<>> THEN [attempts |-> n, ret |-> NoResult]
    ELSE LET f == MakeRequestPass(r, le, os[1]) IN
         IF f.ret # NoResult THEN [attempts |-> n + 1, ret |-> f.ret]
         ELSE MakeRequestRun(f.retries, f.last_exception, Tail(os), n + 1)

\* kinds of result: the decoded response, or a failure
ResultKind(res) == IF res.tag = "decoded" THEN "decoded" ELSE "failure"

\* C11: answered with the same outcomes, an AI request makes the same number
\* of attempts and ends in the same kind of result as a note-service
\* request: when the AI request is over, the note-service loop run on the
\* answers the AI request received has returned too, with that kind.
C11_SameRetryPolicy ==
    (client.cls = "AIService" /\ call.op = "describe_image" /\ call.pc = "done")
    => LET ref == MakeRequestRun(0, Py_None, Answers, 0) IN
       /\ ref.ret # NoResult
       /\ ref.attempts = NetCount
       /\ ResultKind(ref.ret) = ResultKind(result)

\* ========================================================================
\* Properties of the session handlers
\* ========================================================================
Last(seq) == seq[Len(seq)]

\* the last event was this action token, read by the dispatch chain of
\* handle_callback (the session was not INITIAL and _init_services returned)
Dispatched(token) ==
    /\ ev.kind = "callback"
    /\ ev.token = token
    /\ ev.from # INITIAL
    /\ InitRaises(ev.user) = "none"

Upserted == \E i \in DOMAIN calls : calls[i].op = "save_note"

Cleared(S) ==
    /\ S.state = INITIAL
    /\ S.contents = <<>>
    /\ S.files = <<>>
    /\ S.selected_tags = <<>>
    /\ S.current_summary = Py_None
    /\ S.last_state = Py_None

C2_CancelClears ==
    Dispatched(T("cancel")) => Cleared(GLOBAL_SESSION)

C2_Witness ==
    /\ Dispatched(T("cancel"))
    /\ ev.from = SELECTING_TAGS
    /\ Cleared(GLOBAL_SESSION)
    /\ Last(out).kind = "cancelled"

\* the session a user's events are applied to and rendered from: every
\* handler reads and writes GLOBAL_SESSION, whoever effective_user is
SessionOf(u) == GLOBAL_SESSION

EndsWith(seq, suffix) ==
    /\ Len(suffix) <= Len(seq)
    /\ SubSeq(seq, Len(seq) - Len(suffix) + 1, Len(seq)) = suffix

\* C12: an event from one user leaves the session of every other user as it
\* was, and a save by one user does not send the note service the text that
\* another user's message has just put into that user's session.
C12_SessionsAreIsolated ==
    /\ [][\A v \in Users :
            (v # ev'.user /\ SessionOf(v).state # INITIAL) => SessionOf(v)' = SessionOf(v)]_vars
    /\ [][(/\ ev.kind = "message"
            /\ ev.token = T("text")
            /\ InitRaises(ev.user) = "none"
            /\ ev'.kind = "callback"
            /\ ev'.token = T("save")
            /\ ev'.user # ev.user)
           => \A i \in DOMAIN calls' :
                 calls'[i].op = "save_note"
                 => ~EndsWith(calls'[i].content, Last(GLOBAL_SESSION.contents).content)]_vars

\* the step is a callback with this token read by the dispatch chain
Dispatching(token) ==
    /\ ev'.kind = "callback"
    /\ ev'.token = token
    /\ GLOBAL_SESSION.state # INITIAL
    /\ InitRaises(ev'.user) = "none"

\* the handler ended without the error rendering of its except clause
Completed(rs) == rs # <<>> /\ Last(rs).kind # "error_retry"

\* C13: after summarize, tags or parse has moved the session from
\* AwaitingAction into Summarizing, SelectingTags or ParsingContent, the
\* previous state recorded in the session is AwaitingAction.
C13_PreviousStateRecorded ==
    (/\ \E t \in {T("summarize"), T("tags"), T("parse")} : Dispatched(t)
     /\ ev.from = AWAITING_ACTION
     /\ GLOBAL_SESSION.state \in {SUMMARIZING, SELECTING_TAGS, PARSING_CONTENT})
    => GLOBAL_SESSION.last_state = AWAITING_ACTION

\* C15: a parse action that completes appends the parsed content as one new
\* text item at the end of the items and leaves the session AwaitingAction.
C15_ParseReturnsToAwaitingAction ==
    [][(Dispatching(T("parse")) /\ Completed(out'))
       => /\ Len(GLOBAL_SESSION'.contents) = Len(GLOBAL_SESSION.contents) + 1
          /\ SubSeq(GLOBAL_SESSION'.contents, 1, Len(GLOBAL_SESSION.contents))
                = GLOBAL_SESSION.contents
          /\ Last(GLOBAL_SESSION'.contents).type = TEXT
          /\ GLOBAL_SESSION'.state = AWAITING_ACTION]_vars

\* C16: after a summarize action that completed the state is Summarizing and
\* the summary holds the AI result; and a content event that finds the
\* session Summarizing leaves the items as they are.
C16_SummarizingHoldsContent ==
    /\ []((Dispatched(T("summarize")) /\ Completed(out))
            => /\ GLOBAL_SESSION.state = SUMMARIZING
               /\ GLOBAL_SESSION.current_summary # Py_None)
    /\ [][(ev'.kind = "message" /\ GLOBAL_SESSION.state = SUMMARIZING)
           => GLOBAL_SESSION'.contents = GLOBAL_SESSION.contents]_vars

\* C14: a back action read in a non-Idle session moves the state to the
\* previous state and unsets it when one is set; with none set it leaves the
\* state as it is and renders the action menu again; either way the items,
\* the pending files, the selected tags and the summary are what they were.
C14_BackKeepsContent ==
    [][Dispatching(T("back"))
       => /\ IF GLOBAL_SESSION.last_state # Py_None
             THEN /\ GLOBAL_SESSION'.state = GLOBAL_SESSION.last_state
                  /\ GLOBAL_SESSION'.last_state = Py_None
             ELSE /\ GLOBAL_SESSION'.state = GLOBAL_SESSION.state
                  /\ GLOBAL_SESSION'.last_state = Py_None
                  /\ out' = <<Render("menu", ActionButtons(GLOBAL_SESSION))>>
          /\ GLOBAL_SESSION'.contents = GLOBAL_SESSION.contents
          /\ GLOBAL_SESSION'.files = GLOBAL_SESSION.files
          /\ GLOBAL_SESSION'.selected_tags = GLOBAL_SESSION.selected_tags
          /\ GLOBAL_SESSION'.current_summary = GLOBAL_SESSION.current_summary]_vars

C14_Witness ==
    /\ Dispatched(T("back"))
    /\ ev.from = SELECTING_TAGS
    /\ GLOBAL_SESSION.state = SELECTING_TAGS
    /\ GLOBAL_SESSION.selected_tags # <<>>
    /\ GLOBAL_SESSION.files # <<>>
    /\ out = <<Render("menu", ActionButtons(GLOBAL_SESSION))>>

\* C17 as stated: the number of items is the number of content events since
\* the session was last cleared.
C17_LengthEqualsContentEvents ==
    Len(GLOBAL_SESSION.contents) = received

\* the payload of the message kind named by an event
PayloadOf(token) == (CHOOSE m \in Messages : T(m.kind) = token).payload

\* C17 amended: a content event that finds the session Idle or Collecting
\* and is processed without an exception appends exactly one item holding
\* its content at the end of the items and
\* leaves the earlier items in place (an Idle session has none); the number
\* of items is at least the number of content events since the last clear,
\* the other items being those added by parse, save_summary and save_tags.
C17_ContentEventAppendsOne ==
    /\ [](/\ Len(GLOBAL_SESSION.contents) >= received
          /\ (GLOBAL_SESSION.state = INITIAL
                => GLOBAL_SESSION.contents = <<>> /\ received = 0))
    /\ [][(/\ ev'.kind = "message"
            /\ GLOBAL_SESSION.state \in {INITIAL, COLLECTING}
            /\ InitRaises(ev'.user) = "none"
            /\ ev'.token # T("photo_expired"))
           => /\ Len(GLOBAL_SESSION'.contents) = Len(GLOBAL_SESSION.contents) + 1
              /\ SubSeq(GLOBAL_SESSION'.contents, 1, Len(GLOBAL_SESSION.contents))
                    = GLOBAL_SESSION.contents
              /\ Last(GLOBAL_SESSION'.contents).content = <<PayloadOf(ev'.token)>>
              /\ received' = (IF GLOBAL_SESSION.state = INITIAL THEN 1 ELSE received + 1)]_vars

C17_Witness ==
    /\ ev.kind = "message"
    /\ ev.from = COLLECTING
    /\ InitRaises(ev.user) = "none"
    /\ received = 2
    /\ Len(GLOBAL_SESSION.contents) = 2
    /\ GLOBAL_SESSION.contents[1].type = IMAGE
    /\ GLOBAL_SESSION.contents[2].type = TEXT
    /\ GLOBAL_SESSION.contents[2].content = <<"buy milk">>

IsToggle(token) == Len(token) = 2 /\ token[1] = "tag_"

\* C18: when two tag_<name> actions with the same name are read one after
\* the other, the selected tags after the second are exactly, order
\* included, what they were before the first.
C18_ToggleTwiceRestores ==
    [][(/\ IsToggle(ev.token)
        /\ Dispatched(ev.token)
        /\ Dispatching(ev.token))
       => GLOBAL_SESSION'.selected_tags = selected_before]_vars

\* C19: a save_tags action read right after another save_tags, the selection
\* being the same (and not empty), leaves the items as the first one left
\* them.
C19_SaveTagsTwiceNoDuplicate ==
    [][(/\ Dispatched(T("save_tags"))
        /\ Dispatching(T("save_tags"))
        /\ GLOBAL_SESSION.selected_tags # <<>>
        /\ GLOBAL_SESSION.selected_tags = selected_before)
       => GLOBAL_SESSION'.contents = GLOBAL_SESSION.contents]_vars

\* the items before the last one are the same in both sessions
SamePrefix(S, S1, n) == SubSeq(S1.contents, 1, n) = SubSeq(S.contents, 1, n)

\* C20: one save_tags action on a session with items writes the space-joined
\* #tag tokens in exactly one place: onto the end of the last item when it
\* is text, adding no item and changing no other item; or into one new text
\* item at the end when the last item is not text, changing no item.
C20_SaveTagsWritesOnce ==
    [][(Dispatching(T("save_tags")) /\ GLOBAL_SESSION.contents # <<>>)
       => LET S == GLOBAL_SESSION
              S1 == GLOBAL_SESSION'
              n == Len(S.contents)
              tags_text == TagsText(S.selected_tags)
          IN  IF S.contents[n].type = TEXT
              THEN /\ Len(S1.contents) = n
                   /\ SamePrefix(S, S1, n - 1)
                   /\ S1.contents[n].type = TEXT
                   /\ S1.contents[n].content = S.contents[n].content \o <<"\n">> \o tags_text
              ELSE /\ Len(S1.contents) = n + 1
                   /\ SamePrefix(S, S1, n)
                   /\ S1.contents[n + 1] = NoteContent(TEXT, tags_text)]_vars

C20_Witness ==
    /\ Dispatched(T("save_tags"))
    /\ selected_before = << <<"b">>, <<"a">> >>
    /\ Len(GLOBAL_SESSION.contents) = 2
    /\ GLOBAL_SESSION.contents[1].type = IMAGE
    /\ GLOBAL_SESSION.contents[2] = NoteContent(TEXT, <<"#", "b", " ", "#", "a">>)

\* position of the first occurrence of sub in seq at or after from, 0 if none
FirstAt(seq, sub, from) ==
    LET P == {p \in from..(Len(seq) - Len(sub) + 1) : SubSeq(seq, p, p + Len(sub) - 1) = sub}
    IN  IF P = {} THEN 0 ELSE CHOOSE p \in P : \A q \in P : p <= q

\* the texts occur in seq one after the other, in this order
RECURSIVE ContainsInOrder(_, _, _)
ContainsInOrder(seq, texts, from) ==
    IF texts = <<>> THEN TRUE
    ELSE LET p == FirstAt(seq, texts[1], from) IN
         p # 0 /\ ContainsInOrder(seq, Tail(texts), p + Len(texts[1]))

TextsOf(S) ==
    LET items == SelectSeq(S.contents, LAMBDA c : c.type = TEXT)
    IN  [i \in 1..Len(items) |-> items[i].content]

Upserts(cs) == SelectSeq(cs, LAMBDA c : c.op = "save_note")

\* the step is the save of this session in which every upload and the
\* upsert were answered with the expected response
SaveStepAllOk(ups, sv, jn) ==
    /\ \A i \in DOMAIN ups : ups[i] = Decoded("dict_expected")
    /\ sv = Decoded("dict_expected")
    /\ LET h == handle_callback(GLOBAL_SESSION, ev'.user, T("save"), ups, sv, jn, AnyResult) IN
       /\ GLOBAL_SESSION' = h.sess
       /\ out' = h.out
       /\ calls' = h.calls

\* C21: a save action with the note service configured and every call
\* succeeding invokes upsertNote exactly once, with a content that contains
\* every text item in order and with one attachment for each pending file,
\* and leaves the session Idle and empty.
C21_SaveSendsEverythingOnce ==
    [][(Dispatching(T("save")) /\ ~NotConfigured(blinko_service(ev'.user)))
       => \A ups \in [1..Len(GLOBAL_SESSION.files) -> {Decoded("dict_expected")}] :
          \A jn \in JinaAnswers(GLOBAL_SESSION) :
             SaveStepAllOk(ups, Decoded("dict_expected"), jn)
             => /\ Len(Upserts(calls')) = 1
                /\ Last(calls').op = "save_note"
                /\ ContainsInOrder(Last(calls').content, TextsOf(GLOBAL_SESSION), 1)
                /\ Last(calls').attachments
                     = [i \in 1..Len(GLOBAL_SESSION.files) |-> GLOBAL_SESSION.files[i].file_url]
                /\ out' = <<Render("saved", <<>>)>>
                /\ Cleared(GLOBAL_SESSION')]_vars

C21_Witness ==
    /\ Dispatched(T("save"))
    /\ out = <<Render("saved", <<>>)>>
    /\ Len(calls) = 3
    /\ Len(Last(calls).attachments) = 2
    /\ Cleared(GLOBAL_SESSION)

\* the rendering an action ends with when nothing failed
NormalRendering(token) ==
    CASE token = T("summarize") -> "summary"
      [] token = T("tags") -> "tag_menu"
      [] token = T("parse") -> "menu"

\* C22: a summarize, tags or parse action either ends with its own
\* rendering or, when a call it makes fails, with the error rendering that
\* offers retry (the same action) and cancel, the items being exactly what
\* they were before the action; nothing leaves the handler.
C22_FailureKeepsItems ==
    [][\A t \in {T("summarize"), T("tags"), T("parse")} :
          Dispatching(t)
          => /\ out' # <<>>
             /\ propagated' = "none"
             /\ \/ Last(out').kind = NormalRendering(t)
                \/ /\ out' = <<Render("error_retry", <<t, T("cancel")>>)>>
                   /\ GLOBAL_SESSION'.contents = GLOBAL_SESSION.contents]_vars

C22_Witness ==
    /\ Dispatched(T("tags"))
    /\ ev.user = "alice"
    /\ Len(calls) = 1
    /\ out = <<Render("error_retry", <<T("tags"), T("cancel")>>)>>
    /\ Len(GLOBAL_SESSION.contents) = 2
    /\ GLOBAL_SESSION.state = SELECTING_TAGS

\* C23: an action that fails because the note-service URL or credential is
\* missing (tags, save) leaves the session state as it was before the
\* action.
C23_MissingConfigKeepsState ==
    [][\A t \in {T("tags"), T("save")} :
          (Dispatching(t) /\ NotConfigured(blinko_service(ev'.user)))
          => GLOBAL_SESSION'.state = GLOBAL_SESSION.state]_vars

\* C24: whatever fails while an action event is handled in a non-Idle
\* session, a failure of _init_services included, the handler answers with
\* a rendering and no exception leaves it.
C24_NothingPropagates ==
    (ev.kind = "callback" /\ ev.from # INITIAL)
    => /\ propagated = "none"
       /\ out # <<>>

\* C25: at most one handler is in progress at a time; while a handler is
\* suspended in an awaited call no other handler starts, and the session is
\* changed by nothing but the end of that handler.
C25_OneHandlerAtATime ==
    /\ [](Len(active) <= 1)
    /\ [][active # <<>>
           => /\ active' = active \/ active' = <<>>
              /\ (GLOBAL_SESSION' # GLOBAL_SESSION => active' = <<>>)
              /\ (active' = active => pending' = pending \/ Len(pending') = Len(pending) + 1)]_vars

C25_Witness ==
    /\ Len(active) = 1
    /\ active[1].upd = Update("callback", T("tags"))
    /\ GLOBAL_SESSION.state = SELECTING_TAGS
    /\ Len(pending) = 2
    /\ pending[1] = Update("message", T("text"))

\* BlinkoService._get_session: the first request that passes the
\* configuration check creates the aiohttp ClientSession of the service
SessionOpened(u, cs) == cs # <<>> /\ ~NotConfigured(blinko_service(u))

\* blinko_service.close() is awaited by _save_note, on its success path and
\* in its except clause, and by no branch of handle_callback
SessionClosed(token) == token = T("save")

\* C26: when the handling of an action event ends, the network handle the
\* note-service client opened while handling it has been closed.
C26_NoHandleLeftOpen ==
    (ev.kind = "callback" /\ Dispatched(ev.token) /\ SessionOpened(ev.user, calls))
    => SessionClosed(ev.token)

\* C27: a content event that finds the session Idle and is processed
\* successfully leaves exactly that one content in the items, no selected
\* tag, no summary, and no pending file other than the one it brought.
C27_IdleContentStartsAfresh ==
    [][(/\ ev'.kind = "message"
        /\ GLOBAL_SESSION.state = INITIAL
        /\ InitRaises(ev'.user) = "none"
        /\ ev'.token # T("photo_expired"))
       => LET S1 == GLOBAL_SESSION'
              type == S1.contents[1].type
          IN  /\ Len(S1.contents) = 1
              /\ S1.contents[1].content = <<PayloadOf(ev'.token)>>
              /\ S1.selected_tags = <<>>
              /\ S1.current_summary = Py_None
              /\ S1.last_state = Py_None
              /\ S1.files = (IF type \in {IMAGE, AUDIO, VIDEO, FILE}
                               THEN <<[file_url |-> PayloadOf(ev'.token)]>> ELSE <<>>)
              /\ S1.state = AWAITING_ACTION]_vars

C27_Witness ==
    /\ ev.kind = "message"
    /\ ev.from = INITIAL
    /\ ev.user = "carol"
    /\ Len(GLOBAL_SESSION.contents) = 1
    /\ GLOBAL_SESSION.contents[1].type = IMAGE
    /\ Len(GLOBAL_SESSION.files) = 1
    /\ GLOBAL_SESSION.state = AWAITING_ACTION

\* C28: a content event that has been appended to the items is followed by
\* a rendering of the option set, whatever state it found the session in.
C28_AppendIsFollowedByOptions ==
    [][(/\ ev'.kind = "message"
        /\ Len(GLOBAL_SESSION'.contents) = Len(GLOBAL_SESSION.contents) + 1)
       => /\ out' # <<>>
          /\ Last(out').kind = "menu"]_vars

\* ========================================================================
\* Properties of the suggestion parsing
\* ========================================================================
Contains(text, c) == \E i \in DOMAIN text : text[i] = c

IsBlank(line) == \A i \in DOMAIN line : line[i] \in {" ", "\n"}

\* the non-blank lines of the text that contain a separator
SeparatedLines ==
    SelectSeq(SplitOn(suggestion_text, "\n"), LAMBDA l : ~IsBlank(l) /\ Contains(l, "-"))

\* what stands after the first separator of a line
Rationale(line) ==
    LET i == CHOOSE k \in DOMAIN line : line[k] = "-" /\ \A j \in 1..(k - 1) : line[j] # "-"
    IN  SubSeq(line, i + 1, Len(line))

\* what stands before it, without the blanks around it, then without the
\* '#' around what is left, then without the blanks around that
TagText(line) ==
    LET i == CHOOSE k \in DOMAIN line : line[k] = "-" /\ \A j \in 1..(k - 1) : line[j] # "-"
    IN  StripChars(StripChars(StripChars(SubSeq(line, 1, i - 1), {" "}), {"#"}), {" "})

TaggedLines == SelectSeq(SeparatedLines, LAMBDA l : TagText(l) # <<>>)

FirstLineOf(tag) ==
    CHOOSE k \in DOMAIN TaggedLines :
        TagText(TaggedLines[k]) = tag /\ \A j \in 1..(k - 1) : TagText(TaggedLines[j]) # tag

LastLineOf(tag) ==
    CHOOSE k \in DOMAIN TaggedLines :
        TagText(TaggedLines[k]) = tag
        /\ \A j \in (k + 1)..Len(TaggedLines) : TagText(TaggedLines[j]) # tag

ClearRan ==
    \/ Cleared(GLOBAL_SESSION')
    \/ ev'.kind = "message" /\ GLOBAL_SESSION.state = INITIAL

\* C30: in every step in which clear does not run, the items that exist
\* stay where they are, none is removed and new ones come after them; an
\* existing item changes only when it is the last one, it is text, and the
\* step is save_tags, and then its content is extended by a newline and the
\* tag text.
C30_ItemsOnlyGrow ==
    [][~ClearRan
       => LET S == GLOBAL_SESSION
              S1 == GLOBAL_SESSION'
              n == Len(S.contents)
          IN  /\ Len(S1.contents) >= n
              /\ \A i \in 1..n :
                    \/ S1.contents[i] = S.contents[i]
                    \/ /\ i = n
                       /\ Dispatching(T("save_tags"))
                       /\ S.contents[n].type = TEXT
                       /\ S1.contents[n] = [S.contents[n] EXCEPT
                              !.content = @ \o <<"\n">> \o TagsText(S.selected_tags)]]_vars

C30_Witness ==
    /\ Dispatched(T("save_tags"))
    /\ Len(GLOBAL_SESSION.contents) = 2
    /\ GLOBAL_SESSION.contents[1] = NoteContent(IMAGE, <<"f1">>)
    /\ GLOBAL_SESSION.contents[2].type = TEXT
    /\ Len(GLOBAL_SESSION.contents[2].content) >= 2
    /\ GLOBAL_SESSION.contents[2].content[1] = "buy milk"
    /\ GLOBAL_SESSION.contents[2].content[2] = "\n"

\* the name carried by a tag_<name> token: what follows its leading "tag_"
NameOf(token) == Tail(token)

\* a step that handles a tag_<name> action in the tag_ branch
Toggling ==
    /\ ev'.kind = "callback"
    /\ ev'.token # <<>>
    /\ ev'.token[1] = "tag_"
    /\ GLOBAL_SESSION.state # INITIAL
    /\ InitRaises(ev'.user) = "none"

\* C31: a name is in selected_tags after a step only if it was there before
\* the step or the step is a tag_<name> action carrying that name; with
\* clear emptying the list, selected_tags then holds only names that
\* arrived in a tag_<name> action since the last clear.
C31_OnlyToggledNames ==
    [][\A i \in DOMAIN GLOBAL_SESSION'.selected_tags :
          LET name == GLOBAL_SESSION'.selected_tags[i] IN
          \/ \E j \in DOMAIN GLOBAL_SESSION.selected_tags :
                GLOBAL_SESSION.selected_tags[j] = name
          \/ Toggling /\ name = NameOf(ev'.token)]_vars

\* C32: a tag_<name> action changes selected_tags and nothing else of the
\* session: state, contents, files, current_summary and last_state are
\* after the toggle what they were before it.
C32_ToggleChangesOnlySelection ==
    [][Toggling
       => /\ GLOBAL_SESSION'.selected_tags # GLOBAL_SESSION.selected_tags
          /\ GLOBAL_SESSION'
                = [GLOBAL_SESSION EXCEPT !.selected_tags = GLOBAL_SESSION'.selected_tags]]_vars

C32_Witness ==
    /\ ev.kind = "callback"
    /\ ev.token = <<"tag_", "a">>
    /\ ev.user = "alice"
    /\ ev.from = AWAITING_ACTION
    /\ GLOBAL_SESSION.state = AWAITING_ACTION
    /\ GLOBAL_SESSION.selected_tags = << <<"a">> >>
    /\ selected_before = <<>>
    /\ Len(GLOBAL_SESSION.contents) = 1
    /\ Len(GLOBAL_SESSION.files) = 1

\* C33: a continue action changes the state to COLLECTING and nothing else
\* of the session; the content event that comes next, when it is processed
\* without an exception, is appended after the items that were there, the
\* action menu is rendered and the state is AWAITING_ACTION again.
C33_ContinueResumesCollecting ==
    /\ [][Dispatching(T("continue"))
           => GLOBAL_SESSION' = [GLOBAL_SESSION EXCEPT !.state = COLLECTING]]_vars
    /\ [][(/\ Dispatched(T("continue"))
            /\ ev'.kind = "message"
            /\ InitRaises(ev'.user) = "none"
            /\ ev'.token # T("photo_expired"))
           => LET S == GLOBAL_SESSION
                  S1 == GLOBAL_SESSION'
                  n == Len(S.contents)
              IN  /\ Len(S1.contents) = n + 1
                  /\ SubSeq(S1.contents, 1, n) = S.contents
                  /\ S1.contents[n + 1].content = <<PayloadOf(ev'.token)>>
                  /\ S1.selected_tags = S.selected_tags
                  /\ S1.current_summary = S.current_summary
                  /\ out' = <<_show_action_buttons(S1)>>
                  /\ S1.state = AWAITING_ACTION]_vars

C33_Witness ==
    /\ ev.kind = "message"
    /\ ev.token = T("text_with_url")
    /\ ev.from = COLLECTING
    /\ GLOBAL_SESSION.state = AWAITING_ACTION
    /\ Len(GLOBAL_SESSION.contents) = 2
    /\ GLOBAL_SESSION.contents[1] = NoteContent(TEXT, <<"buy milk">>)
    /\ GLOBAL_SESSION.contents[2] = NoteContent(URL, <<"http://x">>)
    /\ out = <<_show_action_buttons(GLOBAL_SESSION)>>

\* ========================================================================
\* Properties of the waits of one request execution
\* ========================================================================
\* the attempts made up to and including the one at log position i
AttemptsUpTo(i) == Cardinality({j \in NetIdx : j <= i})

\* the transport failures among them
FailuresUpTo(i) == Cardinality({j \in NetIdx : j <= i /\ IsTransportFailure(log[j].o)})

\* C34 as stated: when the k-th transport failure (k = 1, 2) of an
\* execution is followed by a further attempt, the wait between the two is
\* k times the base delay.
C34_KthFailureWaitsK ==
    RetryingClient =>
        \A i \in NetIdx :
            (/\ IsTransportFailure(log[i].o)
             /\ FailuresUpTo(i) <= 2
             /\ \E j \in NetIdx : j > i)
            => log[i + 1] = Sleep(FailuresUpTo(i) * retry_delay)

\* C34 amended: after a transport failure on the n-th attempt (n = 1, 2) of
\* an execution, the attempts answered 429 counted as well, the client
\* waits n times the base delay of 1 second before the next attempt; after
\* one on the third attempt it does not wait.
C34_WaitIsAttemptTimesBase ==
    RetryingClient =>
        \A i \in NetIdx :
            IsTransportFailure(log[i].o)
            => IF AttemptsUpTo(i) < max_retries
               THEN /\ i < Len(log)
                    /\ log[i + 1] = Sleep(AttemptsUpTo(i) * retry_delay)
                    /\ retry_delay = 1
               ELSE i = Len(log)

C34_Witness ==
    /\ RetryingClient
    /\ call.pc = "loop"
    /\ Len(log) = 4
    /\ Is429(log[1].o)
    /\ log[3] = Net(Outcome("TimeoutError", 0, NoHeader, "-", "-"))
    /\ log[4] = Sleep(2)

\* C35: between two events a session that is not INITIAL holds at least one
\* item, and a parse action read in such a session finds a last item: it
\* appends the parsed text and does not fail on an empty list.
C35_NonIdleHasItems ==
    /\ [](GLOBAL_SESSION.state # INITIAL => GLOBAL_SESSION.contents # <<>>)
    /\ [][Dispatching(T("parse"))
           => /\ GLOBAL_SESSION.contents # <<>>
              /\ Len(GLOBAL_SESSION'.contents) = Len(GLOBAL_SESSION.contents) + 1
              /\ out' = <<_show_action_buttons(GLOBAL_SESSION')>>]_vars

C35_Witness ==
    /\ Dispatched(T("parse"))
    /\ ev.from = AWAITING_ACTION
    /\ GLOBAL_SESSION.state = PARSING_CONTENT
    /\ Len(GLOBAL_SESSION.contents) = 2
    /\ GLOBAL_SESSION.contents[1].type = IMAGE
    /\ GLOBAL_SESSION.contents[2] = NoteContent(TEXT, <<ParseFileText(IMAGE)>>)

\* C36: an action event that finds the session INITIAL, whatever its token
\* and whoever sends it, is answered with the request to send a message
\* first: no field of the session changes, no note-service call is made,
\* no branch of the chain runs and nothing is raised.
C36_IdleRejectsActions ==
    [][(ev'.kind = "callback" /\ GLOBAL_SESSION.state = INITIAL)
       => /\ GLOBAL_SESSION' = GLOBAL_SESSION
          /\ calls' = <<>>
          /\ out' = <<Render("answer_send_message_first", <<>>)>>
          /\ propagated' = "none"]_vars

C36_Witness ==
    /\ ev.kind = "callback"
    /\ ev.token = T("save")
    /\ ev.user = "dave"
    /\ ev.from = INITIAL
    /\ GLOBAL_SESSION = UserSession
    /\ calls = <<>>
    /\ out = <<Render("answer_send_message_first", <<>>)>>

\* C37: an execution that is over did not end on a suspension: the last
\* thing the client did before it returned was a network attempt, so every
\* wait was followed by a further attempt.
C37_NoWaitWithoutRetry ==
    (RetryingClient /\ call.pc = "done" /\ log # <<>>)
    => log[Len(log)].ev = "net"

\* the token is among the options of the rendering shown last
Offered(token) ==
    /\ out # <<>>
    /\ \E k \in DOMAIN Last(out).options : Last(out).options[k] = token

\* C38: an action whose token was offered in the rendering shown last, read
\* in a non-Idle session by a user whose services initialise, changes the
\* session or sends a rendering.
C38_OfferedOptionsAreHandled ==
    [][(/\ ev'.kind = "callback"
        /\ Offered(ev'.token)
        /\ GLOBAL_SESSION.state # INITIAL
        /\ InitRaises(ev'.user) = "none")
       => (GLOBAL_SESSION' # GLOBAL_SESSION \/ out' # <<>>)]_vars

\* the upload of this answer returns, with the file or with an error
UploadReturns(res) == upload_file_by_url(res).raised = "none"

UploadSucceeds(res) == UploadReturns(res) /\ upload_file_by_url(res).ret.tag = "ok"

\* the locators of the files whose upload succeeded, in the order of files
SucceededFiles(files, ups) ==
    LET idx == SelectSeq([i \in 1..Len(files) |-> i], LAMBDA i : UploadSucceeds(ups[i]))
    IN  [k \in 1..Len(idx) |-> files[idx[k]].file_url]

\* the note-service calls of the step are those of a save of this session
\* with these upload answers; they do not depend on the answer to the upsert
SaveStepCalls(ups, jn) == calls' = _save_note(GLOBAL_SESSION, ups, AnyResult, jn).calls

\* C39: in a save action in which every upload returns and at least one
\* returns an error, every pending file is uploaded once, in order, then
\* upsertNote is invoked once, and its attachments are the files whose
\* upload succeeded, in order; it carries no attachments when none did.
C39_FailedUploadIsSkipped ==
    [][(Dispatching(T("save")) /\ GLOBAL_SESSION.files # <<>>)
       => \A ups \in [1..Len(GLOBAL_SESSION.files) -> Results(ev'.user)] :
             (/\ \A i \in DOMAIN ups : UploadReturns(ups[i])
              /\ \E i \in DOMAIN ups : ~UploadSucceeds(ups[i]))
             => \A jn \in JinaAnswers(GLOBAL_SESSION) :
                   SaveStepCalls(ups, jn)
                   => LET files == GLOBAL_SESSION.files
                          n == Len(files)
                      IN  /\ Len(calls') = n + 1
                          /\ \A i \in 1..n :
                                /\ calls'[i].op = "upload_file_by_url"
                                /\ calls'[i].content = <<files[i].file_url>>
                          /\ calls'[n + 1].op = "save_note"
                          /\ calls'[n + 1].attachments = SucceededFiles(files, ups)
                          /\ calls'[n + 1].has_attachments
                                = (SucceededFiles(files, ups) # <<>>)]_vars

C39_Witness ==
    /\ Dispatched(T("save"))
    /\ ev.user = "alice"
    /\ Len(calls) = 3
    /\ calls[1].op = "upload_file_by_url"
    /\ calls[2].op = "upload_file_by_url"
    /\ calls[3].op = "save_note"
    /\ calls[3].attachments = <<"f1">>
    /\ out = <<Render("saved", <<>>)>>

\* the processing of the content event of this step raises: the services
\* of its user cannot be initialised, or its file cannot be fetched
ProcessingFails ==
    /\ ev'.kind = "message"
    /\ (InitRaises(ev'.user) # "none" \/ ev'.token = T("photo_expired"))

\* C40: a content event whose processing raises leaves the session cleared
\* (INITIAL, no item, no pending file, no selected tag, no summary), in
\* whichever state and with whatever content it found it; the failure is
\* reported and nothing is raised to the application.
C40_FailedContentClears ==
    [][ProcessingFails
       => /\ Cleared(GLOBAL_SESSION')
          /\ out' = <<Render("message_error", <<>>)>>
          /\ propagated' = "none"]_vars

C40_Witness ==
    /\ ev.kind = "message"
    /\ ev.token = T("photo_expired")
    /\ ev.user = "alice"
    /\ ev.from = SELECTING_TAGS
    /\ selected_before # <<>>
    /\ Cleared(GLOBAL_SESSION)
    /\ out = <<Render("message_error", <<>>)>>

====
